---- MODULE Spec2Model ----
(***************************************************************************)
(* A model of mirascope's Groq tool adapter (src/mirascope/groq/tools.py): *)
(* GroqTool.tool_schema, GroqTool.from_tool_call and the three tool-type   *)
(* constructors, together with the span export order that the logfire      *)
(* tests (src/tests/logfire/test_logfire.py) pin down for with_logfire.     *)
(*                                                                         *)
(* Text is a sequence of one-character strings, so that json.loads is a    *)
(* decoder that really reads its input.  Python values are tagged records: *)
(*   [t |-> "int", n |-> 1]   [t |-> "str", s |-> <<"a">>]   [t |-> "null"]*)
(*   [t |-> "bool", b |-> TRUE]   [t |-> "nan"]                            *)
(*   [t |-> "list", l |-> <<...>>]   [t |-> "dict", d |-> [key |-> value]] *)
(***************************************************************************)
EXTENDS Integers, Sequences, FiniteSets, TLC

VARIABLES
  source,     \* the callable, structured type or primitive type a tool is built from
  request,    \* the ChoiceMessageToolCall of the vendor's response
  tool,       \* the tool type (the GroqTool subclass), PyNone before it is built
  rendered,   \* what the last tool.tool_schema() returned, PyNone before the first
  outcome,    \* what the last tool.from_tool_call(request) ended in
  log,        \* the operations performed so far, in order
  invs,       \* with_logfire: the method invocations made on the wrapped object
  exported    \* with_logfire: exporter.exported_spans, oldest first

vars == <<source, request, tool, rendered, outcome, log, invs, exported>>

toolVars == <<source, request, tool, rendered, outcome, log>>

logfireVars == <<invs, exported>>

(***************************************************************************)
(* Python values                                                           *)
(***************************************************************************)
PyInt(n) == [t |-> "int", n |-> n]
PyStr(s) == [t |-> "str", s |-> s]
PyBool(b) == [t |-> "bool", b |-> b]
PyNone == [t |-> "null"]
PyNaN == [t |-> "nan"]
PyList(l) == [t |-> "list", l |-> l]
PyDict(d) == [t |-> "dict", d |-> d]

EmptyMap == [k \in {} |-> PyNone]

(***************************************************************************)
(* json.loads, as from_tool_call calls it (line 105): the decoder of the   *)
(* standard library with its defaults.  It reads RFC 8259 JSON and, beyond *)
(* the RFC, the constant NaN (allow_nan below; Infinity and -Infinity are  *)
(* accepted the same way and are left out of the alphabet).  The alphabet  *)
(* has no backslash, no fraction and no exponent.                          *)
(***************************************************************************)
WHITESPACE == {" ", "\t", "\n", "\r"}

Digits == {"0", "1", "2", "3", "4", "5", "6", "7", "8", "9"}

DigitVal(c) ==
  CASE c = "0" -> 0 [] c = "1" -> 1 [] c = "2" -> 2 [] c = "3" -> 3
    [] c = "4" -> 4 [] c = "5" -> 5 [] c = "6" -> 6 [] c = "7" -> 7
    [] c = "8" -> 8 [] c = "9" -> 9

DecodeFail == [ok |-> FALSE]

DecodeOk(v, end) == [ok |-> TRUE, v |-> v, end |-> end]

\* s[i .. i + Len(w) - 1] = w
StartsWith(s, i, w) ==
  /\ i + Len(w) - 1 <= Len(s)
  /\ \A k \in 1..Len(w) : s[i + k - 1] = w[k]

RECURSIVE SkipWs(_, _)
SkipWs(s, i) ==
  IF i <= Len(s) /\ s[i] \in WHITESPACE THEN SkipWs(s, i + 1) ELSE i

\* The index of the quote that closes a string whose content starts at i; 0 when
\* the string is unterminated or holds a control character.
RECURSIVE ScanString(_, _)
ScanString(s, i) ==
  IF i > Len(s) THEN 0
  ELSE IF s[i] = "\"" THEN i
  ELSE IF s[i] \in {"\t", "\n", "\r"} THEN 0
  ELSE ScanString(s, i + 1)

RECURSIVE ScanDigits(_, _)
ScanDigits(s, i) ==
  IF i <= Len(s) /\ s[i] \in Digits THEN ScanDigits(s, i + 1) ELSE i

RECURSIVE DecVal(_, _, _)
DecVal(s, i, j) ==
  IF j < i THEN 0 ELSE 10 * DecVal(s, i, j - 1) + DigitVal(s[j])

\* NUMBER_RE: -?(0|[1-9][0-9]*)
DecodeNumber(s, i) ==
  LET j == IF s[i] = "-" THEN i + 1 ELSE i
      sign == IF s[i] = "-" THEN -1 ELSE 1
  IN  IF j > Len(s) \/ s[j] \notin Digits THEN DecodeFail
      ELSE LET end == IF s[j] = "0" THEN j + 1 ELSE ScanDigits(s, j)
           IN  DecodeOk(PyInt(sign * DecVal(s, j, end - 1)), end)

DecodeString(s, i) ==
  LET q == ScanString(s, i + 1)
  IN  IF q = 0 THEN DecodeFail
      ELSE DecodeOk(PyStr(SubSeq(s, i + 1, q - 1)), q + 1)

RECURSIVE ScanOnce(_, _, _)
RECURSIVE JSONObjectPairs(_, _, _, _)
RECURSIVE JSONArrayItems(_, _, _, _)

\* scan_once: the value that starts at s[i].
ScanOnce(s, i, allow_nan) ==
  IF i > Len(s) THEN DecodeFail
  ELSE IF s[i] = "\"" THEN DecodeString(s, i)
  ELSE IF s[i] = "{" THEN
    LET j == SkipWs(s, i + 1)
    IN  IF j <= Len(s) /\ s[j] = "}" THEN DecodeOk(PyDict(EmptyMap), j + 1)
        ELSE JSONObjectPairs(s, j, EmptyMap, allow_nan)
  ELSE IF s[i] = "[" THEN
    LET j == SkipWs(s, i + 1)
    IN  IF j <= Len(s) /\ s[j] = "]" THEN DecodeOk(PyList(<<>>), j + 1)
        ELSE JSONArrayItems(s, j, <<>>, allow_nan)
  ELSE IF StartsWith(s, i, <<"n", "u", "l", "l">>) THEN DecodeOk(PyNone, i + 4)
  ELSE IF StartsWith(s, i, <<"t", "r", "u", "e">>) THEN DecodeOk(PyBool(TRUE), i + 4)
  ELSE IF StartsWith(s, i, <<"f", "a", "l", "s", "e">>)
    THEN DecodeOk(PyBool(FALSE), i + 5)
  ELSE IF s[i] \in Digits \cup {"-"} THEN DecodeNumber(s, i)
  ELSE IF allow_nan /\ StartsWith(s, i, <<"N", "a", "N">>) THEN DecodeOk(PyNaN, i + 3)
  ELSE DecodeFail

\* JSONObject's loop: s[i] is to be the quote that opens the next key; a key met
\* twice keeps its last value.
JSONObjectPairs(s, i, pairs, allow_nan) ==
  IF i > Len(s) \/ s[i] # "\"" THEN DecodeFail
  ELSE LET key == DecodeString(s, i)
       IN  IF ~key.ok THEN DecodeFail
           ELSE LET c == SkipWs(s, key.end)
                IN  IF c > Len(s) \/ s[c] # ":" THEN DecodeFail
                    ELSE LET val == ScanOnce(s, SkipWs(s, c + 1), allow_nan)
                         IN  IF ~val.ok THEN DecodeFail
                             ELSE LET e == SkipWs(s, val.end)
                                      now == (key.v.s :> val.v) @@ pairs
                                  IN  IF e > Len(s) THEN DecodeFail
                                      ELSE IF s[e] = "}" THEN DecodeOk(PyDict(now), e + 1)
                                      ELSE IF s[e] = ","
                                        THEN JSONObjectPairs(s, SkipWs(s, e + 1), now, allow_nan)
                                      ELSE DecodeFail

\* JSONArray's loop: s[i] starts the next item.
JSONArrayItems(s, i, items, allow_nan) ==
  LET val == ScanOnce(s, i, allow_nan)
  IN  IF ~val.ok THEN DecodeFail
      ELSE LET e == SkipWs(s, val.end)
               now == Append(items, val.v)
           IN  IF e > Len(s) THEN DecodeFail
               ELSE IF s[e] = "]" THEN DecodeOk(PyList(now), e + 1)
               ELSE IF s[e] = "," THEN JSONArrayItems(s, SkipWs(s, e + 1), now, allow_nan)
               ELSE DecodeFail

\* JSONDecoder.decode: one value, whitespace around it, nothing after it.
Decode(s, allow_nan) ==
  LET r == ScanOnce(s, SkipWs(s, 1), allow_nan)
  IN  IF r.ok /\ SkipWs(s, r.end) = Len(s) + 1 THEN r ELSE DecodeFail

\* json.loads(s): ok = FALSE stands for json.JSONDecodeError.
json_loads(s) == Decode(s, TRUE)

\* Well-formed JSON text (RFC 8259): what the decoder reads without its extension.
WellFormedJSON(s) == Decode(s, FALSE).ok

(***************************************************************************)
(* json.dumps with its defaults (", " and ": "), the encoding a vendor or a *)
(* test puts into ChoiceMessageToolCall.function.arguments.  A dict is      *)
(* written in the key order `order`.                                        *)
(***************************************************************************)
DigitChar(d) ==
  CASE d = 0 -> "0" [] d = 1 -> "1" [] d = 2 -> "2" [] d = 3 -> "3" [] d = 4 -> "4"
    [] d = 5 -> "5" [] d = 6 -> "6" [] d = 7 -> "7" [] d = 8 -> "8" [] d = 9 -> "9"

RECURSIVE NatChars(_)
NatChars(n) ==
  IF n < 10 THEN <<DigitChar(n)>> ELSE NatChars(n \div 10) \o <<DigitChar(n % 10)>>

IntChars(n) == IF n < 0 THEN <<"-">> \o NatChars(-n) ELSE NatChars(n)

RECURSIVE SetToSeq(_)
SetToSeq(S) ==
  IF S = {} THEN <<>> ELSE LET x == CHOOSE x \in S : TRUE IN <<x>> \o SetToSeq(S \ {x})

RECURSIVE json_dumps(_)
RECURSIVE DumpItems(_, _)
RECURSIVE DumpPairs(_, _, _)

json_dumps(v) ==
  CASE v.t = "int" -> IntChars(v.n)
    [] v.t = "str" -> <<"\"">> \o v.s \o <<"\"">>
    [] v.t = "null" -> <<"n", "u", "l", "l">>
    [] v.t = "bool" -> IF v.b THEN <<"t", "r", "u", "e">> ELSE <<"f", "a", "l", "s", "e">>
    [] v.t = "nan" -> <<"N", "a", "N">>
    [] v.t = "list" -> <<"[">> \o DumpItems(v.l, 1) \o <<"]">>
    [] v.t = "dict" -> <<"{">> \o DumpPairs(v.d, SetToSeq(DOMAIN v.d), 1) \o <<"}">>

DumpItems(l, i) ==
  IF i > Len(l) THEN <<>>
  ELSE (IF i > 1 THEN <<",", " ">> ELSE <<>>) \o json_dumps(l[i]) \o DumpItems(l, i + 1)

DumpPairs(d, order, i) ==
  IF i > Len(order) THEN <<>>
  ELSE (IF i > 1 THEN <<",", " ">> ELSE <<>>)
       \o <<"\"">> \o order[i] \o <<"\"", ":", " ">> \o json_dumps(d[order[i]])
       \o DumpPairs(d, order, i + 1)

(***************************************************************************)
(* Tool sources and the tool types built from them.  A tool type (a         *)
(* subclass of GroqTool) is [name, description, fields]: fields is the       *)
(* sequence of its declared fields in declaration order, each               *)
(* [name, type, required, default].  The inherited field tool_call is not    *)
(* among them: it is the key from_tool_call reserves.                       *)
(***************************************************************************)
TOOL_CALL == <<"t", "o", "o", "l", "_", "c", "a", "l", "l">>

VALUE == <<"v", "a", "l", "u", "e">>

ParamNames == {<<"x">>, <<"y">>}

FieldTypes == {"int", "str"}

\* The default a parameter of the type is declared with, when it has one.
DefaultOf(type) == IF type = "int" THEN PyInt(7) ELSE PyStr(<<"m">>)

Params == [name : ParamNames, type : FieldTypes, has_default : BOOLEAN]

\* Signatures: the parameters of a callable, or the fields of a structured type,
\* in order and with distinct names.
Signatures ==
  {sig \in UNION {[1..n -> Params] : n \in 1..Cardinality(ParamNames)} :
     \A i, j \in DOMAIN sig : i # j => sig[i].name # sig[j].name}

Sources ==
  [kind : {"fn", "model"}, params : Signatures] \cup [kind : {"base_type"}, type : FieldTypes]

FieldOf(p) ==
  [name |-> p.name, type |-> p.type, required |-> ~p.has_default,
   default |-> IF p.has_default THEN DefaultOf(p.type) ELSE PyNone]

\* convert_function_to_tool(fn, GroqTool): one field per parameter, required
\* exactly when the parameter has no default.
convert_function_to_tool(fn) ==
  [name |-> "lookup", description |-> "Looks a value up.",
   fields |-> [i \in DOMAIN fn.params |-> FieldOf(fn.params[i])]]

\* convert_base_model_to_tool(model, GroqTool): the model's own fields.
convert_base_model_to_tool(model) ==
  [name |-> "Lookup", description |-> "A lookup.",
   fields |-> [i \in DOMAIN model.params |-> FieldOf(model.params[i])]]

\* convert_base_type_to_tool(base_type, GroqTool): one required field, named by
\* the reserved name "value", of the wrapped primitive type.
convert_base_type_to_tool(base_type) ==
  [name |-> base_type.type, description |-> "Wraps a primitive.",
   fields |-> <<[name |-> VALUE, type |-> base_type.type, required |-> TRUE,
                 default |-> PyNone]>>]

\* GroqTool.from_fn, from_model, from_base_type (lines 112-125).
from_fn(fn) == convert_function_to_tool(fn)

from_model(model) == convert_base_model_to_tool(model)

from_base_type(base_type) == convert_base_type_to_tool(base_type)

FieldNames(cls) == {cls.fields[i].name : i \in DOMAIN cls.fields}

Field(cls, n) == cls.fields[CHOOSE i \in DOMAIN cls.fields : cls.fields[i].name = n]

(***************************************************************************)
(* Schemas                                                                 *)
(***************************************************************************)
JsonType(type) == IF type = "int" THEN "integer" ELSE "string"

\* BaseTool.tool_schema: the vendor-neutral {name, description, parameters}.
BaseToolSchema(cls) ==
  LET req == SelectSeq(cls.fields, LAMBDA f : f.required)
  IN  [name |-> cls.name,
       description |-> cls.description,
       parameters |->
         [type |-> "object",
          properties |-> [n \in FieldNames(cls) |-> [type |-> JsonType(Field(cls, n).type)]],
          required |-> [i \in DOMAIN req |-> req[i].name]]]

\* tool_schema returning the base schema bare, with no envelope around it.
tool_schema_flat(cls) == BaseToolSchema(cls)

\* tool_schema marking every property required on its way into the envelope.
tool_schema_strict(cls) ==
  LET fn == BaseToolSchema(cls)
      all == [i \in DOMAIN cls.fields |-> cls.fields[i].name]
  IN  [type |-> "function",
       function |-> [fn EXCEPT !.parameters = [@ EXCEPT !.required = all]]]

\* tool_schema over a schema the type shares with from_tool_call: once a call was
\* bound, the key it attached shows among the properties.
tool_schema_leaky(cls) ==
  LET fn == BaseToolSchema(cls)
      props == fn.parameters.properties
  IN  [type |-> "function",
       function |->
         IF outcome = PyNone THEN fn
         ELSE [fn EXCEPT !.parameters =
                 [@ EXCEPT !.properties = (TOOL_CALL :> [type |-> "object"]) @@ props]]]

\* GroqTool.tool_schema (lines 83-84).
tool_schema(cls) == [type |-> "function", function |-> BaseToolSchema(cls)]

(***************************************************************************)
(* A tool call (groq's ChoiceMessageToolCall): function and its arguments   *)
(* are both optional; arguments is <<>> when has_arguments is FALSE.        *)
(***************************************************************************)
PyToolCall(tool_call) == [t |-> "ToolCall", call |-> tool_call]

(***************************************************************************)
(* cls.model_validate(model_json) (line 110): pydantic's validation of a    *)
(* dict, in its default (lax) mode, since neither GroqTool nor the call     *)
(* asks for strict.  Lax mode converts an input to the declared type where  *)
(* its conversion table allows it.                                          *)
(***************************************************************************)
ValidOk(v) == [ok |-> TRUE, v |-> v]

Invalid == [ok |-> FALSE]

\* A str that reads as an integer: an optional sign and digits.
IsIntString(s) ==
  LET j == IF Len(s) > 0 /\ s[1] \in {"-", "+"} THEN 2 ELSE 1
  IN  j <= Len(s) /\ ScanDigits(s, j) = Len(s) + 1

IntOfString(s) ==
  LET j == IF s[1] \in {"-", "+"} THEN 2 ELSE 1
  IN  (IF s[1] = "-" THEN -1 ELSE 1) * DecVal(s, j, Len(s))

\* An int field takes an int, a bool (as 0 or 1) and a str that reads as an
\* integer; a str field takes a str only.
ValidateField(type, v) ==
  IF type = "int" THEN
    CASE v.t = "int" -> ValidOk(v)
      [] v.t = "bool" -> ValidOk(PyInt(IF v.b THEN 1 ELSE 0))
      [] v.t = "str" -> IF IsIntString(v.s) THEN ValidOk(PyInt(IntOfString(v.s))) ELSE Invalid
      [] OTHER -> Invalid
  ELSE IF v.t = "str" THEN ValidOk(v) ELSE Invalid

\* One declared field against the dict: its value validated, its default when
\* the key is absent, an error when it is absent and required.
ValidateDeclared(f, d) ==
  IF f.name \in DOMAIN d THEN ValidateField(f.type, d[f.name])
  ELSE IF f.required THEN Invalid
  ELSE ValidOk(f.default)

\* The instance, or pydantic's ValidationError (a ValueError).  Keys that name no
\* field are ignored.  fields_set holds the declared fields the dict gave.
model_validate(cls, d) ==
  LET res == [n \in FieldNames(cls) |-> ValidateDeclared(Field(cls, n), d)]
      back == TOOL_CALL \in DOMAIN d /\ d[TOOL_CALL].t = "ToolCall"
  IN  IF back /\ \A n \in FieldNames(cls) : res[n].ok
      THEN [kind |-> "GroqTool",
            tool_call |-> d[TOOL_CALL].call,
            values |-> [n \in FieldNames(cls) |-> res[n].v],
            fields_set |-> FieldNames(cls) \cap DOMAIN d]
      ELSE [kind |-> "ValidationError"]

(***************************************************************************)
(* GroqTool.from_tool_call (lines 102-110)                                 *)
(***************************************************************************)
\* The guard without its second half: `if tool_call.function:` alone, so that an
\* empty or absent arguments string reaches the decoder.
HasArguments_function_only(tool_call) == tool_call.has_function

\* Line 104: whether the arguments are decoded at all.
HasArguments(tool_call) ==
  tool_call.has_function /\ tool_call.has_arguments /\ tool_call.arguments # <<>>

\* The arguments with the decoder's error swallowed: model_json stays {}.
LoadArguments_swallowed(tool_call) ==
  IF HasArguments(tool_call) /\ json_loads(tool_call.arguments).ok
  THEN json_loads(tool_call.arguments)
  ELSE DecodeOk(PyDict(EmptyMap), 0)

\* Lines 102-107: model_json, or the ValueError raised from JSONDecodeError.
LoadArguments(tool_call) ==
  IF HasArguments(tool_call) THEN json_loads(tool_call.arguments)
  ELSE DecodeOk(PyDict(EmptyMap), 0)

\* model_json = {"tool_call": tool_call}: the dict replaced, not extended.
SetToolCall_replacing(model_json, tool_call) ==
  IF model_json.t = "dict"
  THEN [ok |-> TRUE, d |-> (TOOL_CALL :> PyToolCall(tool_call))]
  ELSE [ok |-> FALSE]

\* Line 109, model_json["tool_call"] = tool_call: a dict takes the key, replacing
\* a value it held under it; any other value raises TypeError.
SetToolCall(model_json, tool_call) ==
  IF model_json.t = "dict"
  THEN [ok |-> TRUE, d |-> (TOOL_CALL :> PyToolCall(tool_call)) @@ model_json.d]
  ELSE [ok |-> FALSE]

\* from_tool_call ending in cls.model_construct(**model_json): no validation.
from_tool_call_unvalidated(cls, tool_call) ==
  LET loaded == LoadArguments(tool_call)
  IN  IF ~loaded.ok THEN [kind |-> "ValueError", cause |-> "JSONDecodeError"]
      ELSE LET set == SetToolCall(loaded.v, tool_call)
           IN  IF ~set.ok THEN [kind |-> "TypeError"]
               ELSE [kind |-> "GroqTool",
                     tool_call |-> tool_call,
                     values |-> [n \in FieldNames(cls) |->
                                   IF n \in DOMAIN set.d THEN set.d[n] ELSE Field(cls, n).default],
                     fields_set |-> FieldNames(cls) \cap DOMAIN set.d]

\* What the call ends in: the instance (kind "GroqTool") or the exception.
from_tool_call(cls, tool_call) ==
  LET loaded == LoadArguments(tool_call)
  IN  IF ~loaded.ok THEN [kind |-> "ValueError", cause |-> "JSONDecodeError"]
      ELSE LET set == SetToolCall(loaded.v, tool_call)
           IN  IF ~set.ok THEN [kind |-> "TypeError"]
               ELSE model_validate(cls, set.d)

(***************************************************************************)
(* The inputs: what a vendor may put into function.arguments.               *)
(***************************************************************************)
\* The most keys of a vendor's JSON object.
MaxKeys == 2

\* The most operations performed on one tool type, its construction included.
MaxOps == 4

\* Values of a declared type that a caller may pass.
TypeValues(type) ==
  IF type = "int" THEN {PyInt(12)} ELSE {PyStr(<<"a">>), PyStr(<<"1">>)}

ArgValues == UNION {TypeValues(type) : type \in FieldTypes} \cup {PyNone}

VendorKeys == ParamNames \cup {TOOL_CALL}

Maps(keys, values) == UNION {[K -> values] : K \in SUBSET keys}

VendorObjects ==
  {PyDict(d) : d \in {m \in Maps(VendorKeys, ArgValues) : Cardinality(DOMAIN m) <= MaxKeys}
                       \cup [{VALUE} -> ArgValues]}

\* Well-formed JSON whose top-level value is no object.
VendorOthers ==
  {PyInt(12), PyStr(<<"a">>), PyNone, PyBool(TRUE), PyList(<<>>), PyList(<<PyInt(12)>>)}

ProperPrefixes(s) == {SubSeq(s, 1, n) : n \in 1..(Len(s) - 1)}

\* Output cut short: the proper prefixes of the objects with the one key "x".
Truncated ==
  UNION {ProperPrefixes(json_dumps(PyDict(d))) : d \in [{<<"x">>} -> ArgValues]}

NOT_JSON == <<"{", "n", "o", "t", " ", "j", "s", "o", "n">>

Handwritten ==
  { <<>>,
    <<" ">>,
    NOT_JSON,
    <<"N", "a", "N">>,
    <<"{", "\"", "x", "\"", ":", " ", "N", "a", "N", "}">>,
    <<"{", "\"", "x", "\"", ":", "1", "2", ",", "\"", "x", "\"", ":", "\"", "a", "\"", "}">>,
    <<" ", "{", "\"", "x", "\"", " ", ":", "1", "2", " ", "}", "\n">>,
    <<"{", "\"", "x", "\"", ":", "1", "2", ",", "}">>,
    <<"{", "}", "{", "}">> }

RawArguments ==
  {json_dumps(v) : v \in VendorObjects \cup VendorOthers} \cup Truncated \cup Handwritten

ToolCalls ==
  [id : {"call_1"}, has_function : {TRUE}, has_arguments : {TRUE}, arguments : RawArguments]
    \cup {[id |-> "call_1", has_function |-> TRUE, has_arguments |-> FALSE, arguments |-> <<>>],
          [id |-> "call_1", has_function |-> FALSE, has_arguments |-> FALSE, arguments |-> <<>>]}

(***************************************************************************)
(* The tool adapter as a state machine: a tool type is built once from its  *)
(* source; then its schema is rendered and the vendor's tool call is bound  *)
(* to it, in any order and any number of times up to MaxOps.                *)
(***************************************************************************)
LogfireIdle == invs = <<>> /\ exported = <<>>

Init ==
  /\ source \in Sources
  /\ request \in ToolCalls
  /\ tool = PyNone
  /\ rendered = PyNone
  /\ outcome = PyNone
  /\ log = <<>>
  /\ LogfireIdle

Build(kind, built) ==
  /\ tool = PyNone
  /\ source.kind = kind
  /\ tool' = built
  /\ log' = Append(log, kind)
  /\ UNCHANGED <<source, request, rendered, outcome, logfireVars>>

FromFn == Build("fn", from_fn(source))

FromModel == Build("model", from_model(source))

FromBaseType == Build("base_type", from_base_type(source))

\* tool.tool_schema(): a classmethod that assigns nothing to tool.
ToolSchema ==
  /\ tool # PyNone
  /\ Len(log) < MaxOps
  /\ rendered' = tool_schema(tool)
  /\ log' = Append(log, "tool_schema")
  /\ UNCHANGED <<source, request, tool, outcome, logfireVars>>

\* tool.from_tool_call(request): a classmethod that assigns nothing to tool and
\* nothing to request.
FromToolCall ==
  /\ tool # PyNone
  /\ Len(log) < MaxOps
  /\ outcome' = from_tool_call(tool, request)
  /\ log' = Append(log, "from_tool_call")
  /\ UNCHANGED <<source, request, tool, rendered, logfireVars>>

Next == FromFn \/ FromModel \/ FromBaseType \/ ToolSchema \/ FromToolCall

Spec == Init /\ [][Next]_vars

(***************************************************************************)
(* Properties of the tool adapter                                          *)
(***************************************************************************)
Called == outcome # PyNone

Rendered == rendered # PyNone

LastOp == IF log = <<>> THEN "" ELSE log[Len(log)]

\* The request carries an arguments string (possibly the empty one).
CarriesString == request.has_function /\ request.has_arguments

\* What the decoder makes of the request's arguments.
Sent == json_loads(request.arguments)

SentObject == HasArguments(request) /\ Sent.ok /\ Sent.v.t = "dict"

HoldsNaN(s) == \E i \in 1..Len(s) : StartsWith(s, i, <<"N", "a", "N">>)

RequiredNames(cls) == {n \in FieldNames(cls) : Field(cls, n).required}

C2_OnlyTypedOutcomes ==
  Called => outcome.kind \in {"GroqTool", "ValueError", "ValidationError"}

\* C3: when the tool declares a required field and the arguments are a JSON
\* object without it, from_tool_call ends in the validation error.
C3_MissingRequiredRejected ==
  (Called /\ SentObject /\ RequiredNames(tool) \ DOMAIN Sent.v.d # {})
    => outcome.kind = "ValidationError"

C3_Witness ==
  /\ Called
  /\ CarriesString
  /\ request.arguments = <<"{", "}">>
  /\ RequiredNames(tool) # {}
  /\ outcome.kind = "ValidationError"

\* C4: when an argument's JSON type differs from its field's declared type,
\* from_tool_call ends in the validation error.
C4_WrongTypeRejected ==
  (Called /\ SentObject
     /\ \E n \in FieldNames(tool) \cap DOMAIN Sent.v.d : Sent.v.d[n].t # Field(tool, n).type)
    => outcome.kind = "ValidationError"

\* C5: a returned instance refers back to the originating request and each
\* declared field the vendor sent holds the value the vendor sent.
C5_BackReferenceKeepsArguments ==
  (Called /\ outcome.kind = "GroqTool")
    => /\ outcome.tool_call = request
       /\ SentObject =>
            \A n \in FieldNames(tool) \cap DOMAIN Sent.v.d : outcome.values[n] = Sent.v.d[n]

\* C6: tool_schema returns exactly {type, function}, type being "function" and
\* function the base builder's {name, description, parameters}, unchanged.
C6_Envelope ==
  Rendered =>
    /\ DOMAIN rendered = {"type", "function"}
    /\ rendered.type = "function"
    /\ rendered.function = BaseToolSchema(tool)
    /\ DOMAIN rendered.function = {"name", "description", "parameters"}

C6_Witness == Rendered /\ LastOp = "tool_schema" /\ Len(tool.fields) = 2

\* The argument mappings valid for a tool type: every required field and any
\* of the others, each with a value of its declared type.
ValidArguments(cls) ==
  {m \in Maps(FieldNames(cls), ArgValues) :
     /\ RequiredNames(cls) \subseteq DOMAIN m
     /\ \A n \in DOMAIN m : m[n] \in TypeValues(Field(cls, n).type)}

\* C7: for a tool type of any source kind and any mapping valid for it,
\* from_tool_call on the mapping's JSON encoding returns an instance whose
\* fields hold the mapping's values and that was given exactly its keys.
C7_RoundTrip ==
  Called =>
    \A m \in ValidArguments(tool) :
      (CarriesString /\ request.arguments = json_dumps(PyDict(m)))
        => /\ outcome.kind = "GroqTool"
           /\ outcome.fields_set = DOMAIN m
           /\ \A n \in DOMAIN m : outcome.values[n] = m[n]

C7_Witness ==
  /\ Called
  /\ source.kind = "base_type"
  /\ source.type = "str"
  /\ CarriesString
  /\ request.arguments = json_dumps(PyDict(VALUE :> PyStr(<<"1">>)))
  /\ outcome.kind = "GroqTool"
  /\ outcome.values[VALUE] = PyStr(<<"1">>)

\* C8: the rendered required list of a tool built from a callable or a
\* structured type names exactly the parameters without a default, each once.
C8_RequiredFidelity ==
  (Rendered /\ source.kind \in {"fn", "model"}) =>
    LET required == rendered.function.parameters.required
        expected == {source.params[i].name : i \in {j \in DOMAIN source.params :
                                                      ~source.params[j].has_default}}
    IN  /\ {required[i] : i \in DOMAIN required} = expected
        /\ Len(required) = Cardinality(expected)

C8_Witness ==
  /\ Rendered
  /\ source.kind = "fn"
  /\ Len(source.params) = 2
  /\ ~source.params[1].has_default
  /\ source.params[2].has_default
  /\ rendered.function.parameters.required = <<source.params[1].name>>

NothingToDecode ==
  ~request.has_function \/ ~request.has_arguments \/ request.arguments = <<>>

\* C11: when the tool call has no function part, or its arguments are empty or
\* absent, from_tool_call never raises the parse error; it returns an instance
\* (referring back to the request, given no field, every field at its default)
\* exactly when the tool declares no required field, and otherwise fails with
\* the validation error.
C11_NoArgumentsValidatesBackReferenceOnly ==
  (Called /\ NothingToDecode) =>
    /\ outcome.kind # "ValueError"
    /\ IF \A i \in DOMAIN tool.fields : ~tool.fields[i].required
       THEN outcome = [kind |-> "GroqTool",
                       tool_call |-> request,
                       values |-> [n \in FieldNames(tool) |-> Field(tool, n).default],
                       fields_set |-> {}]
       ELSE outcome = [kind |-> "ValidationError"]

C11_Witness ==
  /\ Called
  /\ ~request.has_function
  /\ Len(tool.fields) = 2
  /\ \A i \in DOMAIN tool.fields : ~tool.fields[i].required
  /\ outcome.kind = "GroqTool"
  /\ outcome.fields_set = {}

(***************************************************************************)
(* with_logfire, as the logfire tests observe it.  A wrapped method runs    *)
(* inside a span named "<Class>.<method>": the exporter receives the span's *)
(* "(pending)" record when the span opens and its completed record when it  *)
(* closes.  An instrumented provider (cohere, gemini, groq) adds records of *)
(* its own inside: a pending and a completed record for a plain call, the   *)
(* one record "streaming response from ... took ..." for a stream.          *)
(*                                                                         *)
(* call runs to its end when invoked.  call_async is a coroutine: it runs   *)
(* to the provider's await and ends when resumed.  stream and stream_async  *)
(* are generators: invoking them exports nothing (test_openai_call_with_    *)
(* logfire invokes stream() without consuming it and finds no record of     *)
(* it); the span opens at the first item asked for and closes when the      *)
(* stream is exhausted, the caller running in between.                      *)
(*                                                                         *)
(* An invocation is [method, instrumented, chunks, pc, settled]: chunks is   *)
(* what the provider's stream still holds, settled the invocations that had *)
(* ended when this one was made.  A record is [inv, span, pending].         *)
(***************************************************************************)
\* The most invocations made on one wrapped object.
MaxInvocations == 2

\* The most chunks a provider streams.
MaxChunks == 1

Methods == {"call", "call_async", "stream", "stream_async"}

Streaming(m) == m \in {"stream", "stream_async"}

Record(i, span, pending) == [inv |-> i, span |-> span, pending |-> pending]

\* The provider's span opening without its "(pending)" record marked as such.
ProviderPending_unmarked(i, inv) ==
  IF inv.instrumented THEN <<Record(i, "provider", FALSE)>> ELSE <<>>

\* What a plain call exports from its provider call: the provider's own span.
ProviderPending(i, inv) ==
  IF inv.instrumented THEN <<Record(i, "provider", TRUE)>> ELSE <<>>

ProviderCompleted(i, inv) ==
  IF inv.instrumented THEN <<Record(i, "provider", FALSE)>> ELSE <<>>

\* What the end of a stream exports: the provider's one record.
StreamingResponse(i, inv) ==
  IF inv.instrumented THEN <<Record(i, "streaming response", FALSE)>> ELSE <<>>

Ended == {i \in DOMAIN invs : invs[i].pc = "done"}

InitLogfire ==
  /\ source = PyNone
  /\ request = PyNone
  /\ tool = PyNone
  /\ rendered = PyNone
  /\ outcome = PyNone
  /\ log = <<>>
  /\ LogfireIdle

\* my_call.call(): the span opens, the provider is called, the span closes.
Call(instrumented) ==
  /\ Len(invs) < MaxInvocations
  /\ LET i == Len(invs) + 1
         inv == [method |-> "call", instrumented |-> instrumented, chunks |-> 0,
                 pc |-> "done", settled |-> Ended]
     IN  /\ invs' = Append(invs, inv)
         /\ exported' = exported \o <<Record(i, "method", TRUE)>> \o ProviderPending(i, inv)
                          \o ProviderCompleted(i, inv) \o <<Record(i, "method", FALSE)>>
  /\ UNCHANGED toolVars

\* my_call.call_async(), my_call.stream(), my_call.stream_async(): a coroutine
\* or a generator is made; nothing of the method has run.
Invoke(m, instrumented, chunks) ==
  /\ Len(invs) < MaxInvocations
  /\ m # "call"
  /\ Streaming(m) \/ chunks = 0
  /\ invs' = Append(invs, [method |-> m, instrumented |-> instrumented, chunks |-> chunks,
                           pc |-> "created", settled |-> Ended])
  /\ UNCHANGED <<exported, toolVars>>

\* The coroutine of call_async runs to the provider's await.
AwaitProvider(i) ==
  /\ invs[i].method = "call_async"
  /\ invs[i].pc = "created"
  /\ invs' = [invs EXCEPT ![i].pc = "awaiting"]
  /\ exported' = exported \o <<Record(i, "method", TRUE)>> \o ProviderPending(i, invs[i])
  /\ UNCHANGED toolVars

\* The provider answers: the coroutine resumes and returns.
Resume(i) ==
  /\ invs[i].method = "call_async"
  /\ invs[i].pc = "awaiting"
  /\ invs' = [invs EXCEPT ![i].pc = "done"]
  /\ exported' = exported \o ProviderCompleted(i, invs[i]) \o <<Record(i, "method", FALSE)>>
  /\ UNCHANGED toolVars

\* The caller asks the generator for its next item: the span opens at the first
\* request; a chunk is yielded while the provider has one, the stream and the
\* span end when it has none.
StreamNext(i) ==
  /\ Streaming(invs[i].method)
  /\ invs[i].pc \in {"created", "yielded"}
  /\ LET opening == IF invs[i].pc = "created" THEN <<Record(i, "method", TRUE)>> ELSE <<>>
     IN  IF invs[i].chunks > 0
         THEN /\ invs' = [invs EXCEPT ![i].chunks = @ - 1, ![i].pc = "yielded"]
              /\ exported' = exported \o opening
         ELSE /\ invs' = [invs EXCEPT ![i].pc = "done"]
              /\ exported' = exported \o opening \o StreamingResponse(i, invs[i])
                               \o <<Record(i, "method", FALSE)>>
  /\ UNCHANGED toolVars

NextLogfire ==
  \/ \E instrumented \in BOOLEAN : Call(instrumented)
  \/ \E m \in Methods, instrumented \in BOOLEAN, chunks \in 0..MaxChunks :
       Invoke(m, instrumented, chunks)
  \/ \E i \in DOMAIN invs : AwaitProvider(i)
  \/ \E i \in DOMAIN invs : Resume(i)
  \/ \E i \in DOMAIN invs : StreamNext(i)

SpecLogfire == InitLogfire /\ [][NextLogfire]_vars

(***************************************************************************)
(* Properties of the exported spans                                        *)
(***************************************************************************)
\* Where the records of invocation i stand in exported_spans.
Positions(i) == {p \in DOMAIN exported : exported[p].inv = i}

First(P) == CHOOSE p \in P : \A q \in P : p <= q

Last(P) == CHOOSE p \in P : \A q \in P : q <= p

\* The method's "(pending)" record is the invocation's first and its completed
\* record, once the method has ended, its last; neither is exported twice.
MethodRecordsEnclose(i) ==
  LET P == Positions(i)
  IN  P # {} =>
        /\ exported[First(P)] = Record(i, "method", TRUE)
        /\ \A p \in P : exported[p].span = "method" => p \in {First(P), Last(P)}
        /\ invs[i].pc = "done" <=> (Cardinality(P) > 1 /\ exported[Last(P)] = Record(i, "method", FALSE))

\* A provider span's "(pending)" record comes before its completed record, and
\* both, like the streaming record, after the method's pending record and
\* before its completed one.
ProviderRecordsInside(i) ==
  LET P == Positions(i)
      inner == {p \in P : exported[p].span # "method"}
  IN  /\ \A p \in inner : First(P) < p /\ (invs[i].pc = "done" => p < Last(P))
      /\ \A p, q \in inner :
           (exported[p].span = "provider" /\ exported[q].span = "provider" /\ p < q)
             => (exported[p].pending /\ ~exported[q].pending)
      /\ \A p \in inner : exported[p].span = "provider" => ~Streaming(invs[i].method)
      /\ \A p \in inner : exported[p].span = "streaming response" => Streaming(invs[i].method)
      /\ invs[i].pc = "done" =>
           Cardinality(inner) = (IF ~invs[i].instrumented THEN 0
                                 ELSE IF Streaming(invs[i].method) THEN 1 ELSE 2)

\* A streaming method's completed record is exported only once the stream was
\* consumed to its end.
CompletedAfterConsumed(i) ==
  (Streaming(invs[i].method) /\ \E p \in Positions(i) : exported[p] = Record(i, "method", FALSE))
    => (invs[i].chunks = 0 /\ invs[i].pc = "done")

WellNested ==
  \A i \in DOMAIN invs :
    MethodRecordsEnclose(i) /\ ProviderRecordsInside(i) /\ CompletedAfterConsumed(i)

Precedes(i, j) == \A p \in Positions(i), q \in Positions(j) : p < q

\* C10, as claimed: the records are well nested, and every record of an
\* invocation is exported before any record of an invocation made after it on
\* the same object.
C10_NestedAndInInvocationOrder ==
  /\ WellNested
  /\ \A i, j \in DOMAIN invs : i < j => Precedes(i, j)

\* C10, amended: the records are well nested, and every record of an invocation
\* that had ended (its coroutine returned, its stream consumed to the end) when
\* another was made is exported before any record of that other.
C10_NestedAndInOrderWhenSequential ==
  /\ WellNested
  /\ \A i, j \in DOMAIN invs : i \in invs[j].settled => Precedes(i, j)

\* A stream consumed to its end, then a call: the seven records of
\* test_cohere_call_stream_with_logfire followed by test_cohere_call_call_with_logfire.
C10_Witness ==
  /\ Len(invs) = 2
  /\ invs[1].method = "stream" /\ invs[1].instrumented /\ invs[1].pc = "done"
  /\ invs[2].method = "call" /\ invs[2].instrumented /\ invs[2].settled = {1}
  /\ exported = <<Record(1, "method", TRUE), Record(1, "streaming response", FALSE),
                  Record(1, "method", FALSE), Record(2, "method", TRUE),
                  Record(2, "provider", TRUE), Record(2, "provider", FALSE),
                  Record(2, "method", FALSE)>>

====
